---- MODULE Spec2Model ----
(***************************************************************************)
(* A model of sensor_logger.c: main() parses <count> <file> [--show <idx>],*)
(* fills a malloc'ed array with random SensorRecords, dumps it to the file *)
(* with one write(), and optionally seeks to index * sizeof(SensorRecord)  *)
(* and prints the record found there.                                      *)
(*                                                                         *)
(* Machine words are scaled down: size_t is WordBits wide (unsigned) and   *)
(* off_t / ssize_t are WordBits wide (signed), as on an LP64 build where   *)
(* all three are 64 bits.  Memory and the file are sequences of 4-byte     *)
(* cells; a SensorRecord is RecordSize \div CellSize cells.                *)
(***************************************************************************)
EXTENDS Integers, Sequences, FiniteSets

VARIABLES
    argv,          \* the user arguments argv[1..argc-1], each a sequence of characters
    pc,            \* position of the process
    count,         \* main: size_t count
    index,         \* main: size_t index
    allocBytes,    \* bytes malloc() was asked for (modulo 2^WordBits); -1 before the call
    i,             \* main: loop counter of the generation loop
    data,          \* the cells of the malloc'ed buffer that have been filled
    heapOverflow,  \* a store through data[i] landed outside the buffer
    now,           \* what time(NULL) returns
    file,          \* the file at argv[2]: [exists, len (bytes), cells (whole cells)]
    wfd,           \* descriptor of write_records_to_file: "none", "open", "closed"
    rfd,           \* descriptor of read_record_by_index: "none", "open", "closed"
    offset,        \* read_record_by_index: off_t offset
    written,       \* write_records_to_file: ssize_t written
    read_bytes,    \* read_record_by_index: ssize_t read_bytes
    stdout,        \* the records printed by read_record_by_index
    diag,          \* the diagnostic on stderr
    exitCode,      \* exit status; -1 while the process runs
    exitedIn,      \* the function in which the process terminated
    calls,         \* the system calls issued so far, in order
    rng,           \* the values rand() returns next, in order (cyclic); set by srand
    rec            \* create_random_record: the record it filled

vars == << argv, pc, count, index, allocBytes, i, data, heapOverflow, now, file,
           wfd, rfd, offset, written, read_bytes, stdout, diag, exitCode,
           exitedIn, calls, rng, rec >>

----------------------------------------------------------------------------
(* Bounds of the model *)

WordBits == 12
RandBits == 8
MantBits == 6
MaxTime == 1

(* Program constants *)

RecordSize == 24
CellSize == 4
IdBase == 1000
EXIT_FAILURE == 1
EXIT_SUCCESS == 0

WordMod == 2 ^ WordBits
ULONG_MAX == WordMod - 1
OFF_MAX == 2 ^ (WordBits - 1) - 1
\* uint32_t, scaled with the machine word: one bit narrower than size_t
Uint32Mod == 2 ^ (WordBits - 1)
RAND_MAX == 2 ^ RandBits - 1
CellsPerRecord == RecordSize \div CellSize

Min(a, b) == IF a < b THEN a ELSE b
Max(a, b) == IF a > b THEN a ELSE b
Abs(a) == IF a < 0 THEN -a ELSE a

\* unsigned (size_t) arithmetic
SizeT(x) == x % WordMod
\* conversion of a size_t value to the signed off_t of the same width
ToOffT(x) == IF x > OFF_MAX THEN x - WordMod ELSE x
Uint32(x) == x % Uint32Mod

----------------------------------------------------------------------------
(* Strings are sequences of characters; strtoul(s, NULL, 10) *)

Digits == << "0", "1", "2", "3", "4", "5", "6", "7", "8", "9" >>

IsDigit(c) == \E d \in 1..10 : Digits[d] = c
DigitVal(c) == (CHOOSE d \in 1..10 : Digits[d] = c) - 1

RECURSIVE SkipSpace(_, _)
SkipSpace(s, k) ==
    IF k <= Len(s) /\ s[k] = " " THEN SkipSpace(s, k + 1) ELSE k

\* accumulates the digits from position k on; a value past ULONG_MAX sticks at
\* ULONG_MAX + 1
RECURSIVE ParseDigits(_, _, _)
ParseDigits(s, k, acc) ==
    IF k <= Len(s) /\ IsDigit(s[k])
    THEN ParseDigits(s, k + 1, Min(acc * 10 + DigitVal(s[k]), ULONG_MAX + 1))
    ELSE acc

Strtoul(s) ==
    LET k0 == SkipSpace(s, 1)
        neg == k0 <= Len(s) /\ s[k0] = "-"
        k1 == IF k0 <= Len(s) /\ s[k0] \in {"-", "+"} THEN k0 + 1 ELSE k0
        acc == ParseDigits(s, k1, 0)
    IN  IF acc > ULONG_MAX THEN ULONG_MAX
        ELSE IF neg THEN SizeT(WordMod - acc)
        ELSE acc

\* the decimal text of a natural number
RECURSIVE Dec(_)
Dec(n) ==
    IF n < 10 THEN << Digits[n + 1] >>
    ELSE Dec(n \div 10) \o << Digits[(n % 10) + 1] >>

----------------------------------------------------------------------------
(* float: a value n/d with d a power of two, kept as <<n, d>> in lowest     *)
(* terms, with MantBits significant bits, rounded to nearest, ties to even *)

RECURSIVE Norm(_, _)
Norm(n, d) == IF d > 1 /\ n % 2 = 0 THEN Norm(n \div 2, d \div 2) ELSE << n, d >>

RoundNearestEven(a, d) ==
    LET q == a \div d
        r == a % d
    IN  IF 2 * r > d \/ (2 * r = d /\ q % 2 = 1) THEN q + 1 ELSE q

\* least j >= 0 with a < d * 2^(MantBits + j)
RECURSIVE ExpDown(_, _, _)
ExpDown(a, d, j) == IF a < d * 2 ^ (MantBits + j) THEN j ELSE ExpDown(a, d, j + 1)

\* least j >= 0 with a * 2^j >= d * 2^(MantBits - 1)
RECURSIVE ExpUp(_, _, _)
ExpUp(a, d, j) == IF a * 2 ^ j >= d * 2 ^ (MantBits - 1) THEN j ELSE ExpUp(a, d, j + 1)

\* the float nearest to the rational n/d (d > 0)
RoundF(n, d) ==
    IF n = 0 THEN << 0, 1 >>
    ELSE LET a == Abs(n)
             s == IF n < 0 THEN -1 ELSE 1
         IN  IF a >= d * 2 ^ (MantBits - 1)
             THEN LET j == ExpDown(a, d, 0)
                  IN  << s * RoundNearestEven(a, d * 2 ^ j) * 2 ^ j, 1 >>
             ELSE LET j == ExpUp(a, d, 0)
                  IN  Norm(s * RoundNearestEven(a * 2 ^ j, d), 2 ^ j)

FLit(n) == RoundF(n, 1)
IntToFloat(r) == RoundF(r, 1)
FAdd(x, y) == RoundF(x[1] * y[2] + y[1] * x[2], x[2] * y[2])
FSub(x, y) == RoundF(x[1] * y[2] - y[1] * x[2], x[2] * y[2])
FMul(x, y) == RoundF(x[1] * y[1], x[2] * y[2])
FDiv(x, y) == RoundF(x[1] * y[2], x[2] * y[1])
FLess(x, y) == x[1] * y[2] < y[1] * x[2]
FLeq(x, y) == x[1] * y[2] <= y[1] * x[2]

TempMin == FLit(-5)
TempMax == FLit(55)
HumMin == FLit(10)
HumMax == FLit(100)

----------------------------------------------------------------------------
(* The generator *)

\* random_float scaling by max instead of max - min
random_float_unshifted(min, max, r) ==
    FAdd(min, FMul(FDiv(IntToFloat(r), IntToFloat(RAND_MAX)), max))

\* random_float with rand() returning r
random_float(min, max, r) ==
    FAdd(min, FMul(FDiv(IntToFloat(r), IntToFloat(RAND_MAX)), FSub(max, min)))

\* the SensorRecord create_random_record fills, given what rand() and time() return
create_random_record(id, r1, r2, t) ==
    [ sensor_id           |-> id,
      temperature_celsius |-> random_float(TempMin, TempMax, r1),
      humidity_percent    |-> random_float(HumMin, HumMax, r2),
      timestamp           |-> t ]

\* the bytes of a SensorRecord in memory, as 4-byte cells (LP64 layout)
Serialize(r) ==
    << [kind |-> "u32",  val |-> << r.sensor_id, 1 >>],
       [kind |-> "f32",  val |-> r.temperature_celsius],
       [kind |-> "f32",  val |-> r.humidity_percent],
       [kind |-> "pad",  val |-> << 0, 1 >>],
       [kind |-> "time", val |-> << r.timestamp, 1 >>],
       [kind |-> "time_hi", val |-> << 0, 1 >>] >>

\* what a cell holds when it is read as a field of another type
Garbage == << 0, 0 >>
Field(cell, kind) == IF cell.kind = kind THEN cell.val ELSE Garbage

\* the SensorRecord read() leaves in rec from six consecutive cells
Deserialize(cells) ==
    [ sensor_id           |-> Field(cells[1], "u32"),
      temperature_celsius |-> Field(cells[2], "f32"),
      humidity_percent    |-> Field(cells[3], "f32"),
      timestamp           |-> Field(cells[5], "time") ]

----------------------------------------------------------------------------
(* Inputs *)

SHOW == << "-", "-", "s", "h", "o", "w" >>
NOSHOW == << "-", "-", "s", "h", "o" >>
PATH == << "p" >>

\* the least count whose buffer size overflows size_t
OverflowCount == (WordMod \div RecordSize) + 1
\* the least index whose byte offset does not fit off_t
NegOffsetIndex == (OFF_MAX \div RecordSize) + 1

CountArgs ==
    { << "0" >>, << "x" >>, << "1" >>, << "2" >>, << "3" >>, Dec(OverflowCount) }

IndexArgs ==
    { << "0" >>, << "1" >>, << "2" >>, << "3" >>, << "x" >>, << "-", "1" >>,
      Dec(NegOffsetIndex), Dec(OverflowCount), Dec(WordMod) }

Argvs ==
    { << >>, << << "3" >> >>, << << "3" >>, PATH, SHOW >>,
      << << "3" >>, PATH, SHOW, << "1" >>, << "1" >> >> }
    \cup { << c, PATH >> : c \in CountArgs }
    \cup { << c, PATH, SHOW, x >> : c \in CountArgs, x \in IndexArgs }
    \cup { << c, PATH, NOSHOW, << "1" >> >> : c \in CountArgs }

\* the streams of values rand() returns after srand, one per seed
RandStreams ==
    { << 0 >>, << RAND_MAX >>, << 0, RAND_MAX, RAND_MAX \div 2 >> }

\* the stream left after k calls of rand()
RECURSIVE Advance(_, _)
Advance(s, k) == IF k = 0 THEN s ELSE Advance(Tail(s) \o << Head(s) >>, k - 1)

OldCell == [kind |-> "old", val |-> << 0, 1 >>]
NoFile == [exists |-> FALSE, len |-> 0, cells |-> << >>]
OldFile == [exists |-> TRUE, len |-> 4 * RecordSize,
            cells |-> [k \in 1..(4 * CellsPerRecord) |-> OldCell]]

argc == Len(argv) + 1

----------------------------------------------------------------------------
(* The process *)

Init ==
    /\ argv \in Argvs
    /\ file \in { NoFile, OldFile }
    /\ pc = "main"
    /\ count = 0
    /\ index = 0
    /\ allocBytes = -1
    /\ i = 0
    /\ data = << >>
    /\ heapOverflow = FALSE
    /\ now = 0
    /\ wfd = "none"
    /\ rfd = "none"
    /\ offset = 0
    /\ written = 0
    /\ read_bytes = 0
    /\ stdout = << >>
    /\ diag = ""
    /\ exitCode = -1
    /\ exitedIn = ""
    /\ calls = << >>
    /\ rng = << >>
    /\ rec = << >>

\* exit(status) called in function fn after printing msg on stderr
Exit(status, msg, fn) ==
    /\ pc' = "exited"
    /\ exitCode' = status
    /\ diag' = msg
    /\ exitedIn' = fn

exit_on_error(msg, fn) == Exit(EXIT_FAILURE, msg, fn)

\* main: the argument count is one main accepts
ArgcAccepted == argc = 3 \/ argc = 5

\* a count test that can never be true of a size_t
CountRejected_signed(c) == c < 0

\* main: the test that rejects the parsed count
CountRejected(c) == c = 0

\* main: argument checks, parsing of the count, srand
Main_Start ==
    /\ pc = "main"
    /\ IF ~ArgcAccepted
       THEN /\ Exit(EXIT_FAILURE, "Usage", "main")
            /\ UNCHANGED count
       ELSE /\ count' = Strtoul(argv[1])
            /\ IF CountRejected(count')
               THEN Exit(EXIT_FAILURE, "Count must be a positive number.", "main")
               ELSE /\ pc' = "malloc"
                    /\ UNCHANGED << exitCode, diag, exitedIn >>
    /\ IF ArgcAccepted /\ ~CountRejected(count')
       THEN rng' \in RandStreams
       ELSE UNCHANGED rng
    /\ UNCHANGED << argv, index, allocBytes, i, data, heapOverflow, now, file, wfd,
                    rfd, offset, written, read_bytes, stdout, calls, rec >>

\* the byte count main passes to malloc and write_records_to_file passes to write
BufferBytes(c) == SizeT(RecordSize * c)

\* main: data = malloc(sizeof(SensorRecord) * count)
Main_Malloc ==
    /\ pc = "malloc"
    /\ allocBytes' = BufferBytes(count)
    /\ \/ /\ exit_on_error("Memory allocation failed", "main")
          /\ UNCHANGED i
       \/ /\ pc' = "gen"
          /\ i' = 0
          /\ UNCHANGED << exitCode, diag, exitedIn >>
    /\ UNCHANGED << argv, count, index, data, heapOverflow, now, file, wfd, rfd,
                    offset, written, read_bytes, stdout, calls, rng, rec >>

\* the number of cells of data[k] that lie inside the allocated buffer
CellsInside(k) ==
    Max(0, Min(CellsPerRecord, (allocBytes - k * RecordSize) \div CellSize))

\* main: one iteration of the generation loop.  A store outside the buffer is
\* undefined behaviour: the process is killed, or it runs on.
Main_Generate ==
    /\ pc = "gen"
    /\ i < count
    /\ \E t \in now..MaxTime :
          LET r == create_random_record(Uint32(SizeT(i + IdBase)),
                                        rng[1], Advance(rng, 1)[1], t)
              room == CellsInside(i)
          IN  /\ now' = t
              /\ rng' = Advance(rng, 2)
              /\ data' = data \o SubSeq(Serialize(r), 1, room)
              /\ heapOverflow' = (heapOverflow \/ room < CellsPerRecord)
              /\ i' = i + 1
              /\ \/ /\ pc' = "gen"
                    /\ UNCHANGED << exitCode, diag, exitedIn >>
                 \/ /\ room < CellsPerRecord
                    /\ pc' = "killed"
                    /\ exitCode' = 128 + 11
                    /\ diag' = "Segmentation fault"
                    /\ exitedIn' = "main"
    /\ UNCHANGED << argv, count, index, allocBytes, file, wfd, rfd, offset, written,
                    read_bytes, stdout, calls, rec >>

\* main leaves the generation loop and calls write_records_to_file:
\* open(path, O_CREAT | O_WRONLY | O_TRUNC, 0644)
Write_Open ==
    /\ pc = "gen"
    /\ ~(i < count)
    /\ calls' = Append(calls, "open")
    /\ \/ /\ exit_on_error("Failed to open file for writing", "write_records_to_file")
          /\ UNCHANGED << file, wfd >>
       \/ /\ file' = [exists |-> TRUE, len |-> 0, cells |-> << >>]
          /\ wfd' = "open"
          /\ pc' = "w_write"
          /\ UNCHANGED << exitCode, diag, exitedIn >>
    /\ UNCHANGED << argv, count, index, allocBytes, i, data, heapOverflow, now, rfd,
                    offset, written, read_bytes, stdout, rng, rec >>

\* the byte counts write(fd, buf, n) can return without failing
WriteReturns(n) ==
    { k \in 0..Min(n, OFF_MAX) :
        /\ k > 0 \/ n = 0
        /\ k = n \/ k = n - 1 \/ k % (RecordSize \div 2) = 0 }

\* write_records_to_file: the test that makes the result of write() fatal
WriteFatal(w, n) == w < 0

\* write_records_to_file: write(fd, records, count * sizeof(SensorRecord))
Write_Write ==
    /\ pc = "w_write"
    /\ calls' = Append(calls, "write")
    /\ LET n == BufferBytes(count)
       IN  \E w \in WriteReturns(n) \cup { -1 } :
              /\ written' = w
              /\ file' = IF w < 0 THEN file
                         ELSE [exists |-> TRUE, len |-> w,
                               cells |-> SubSeq(data, 1, w \div CellSize)]
              /\ IF WriteFatal(w, n)
                 THEN exit_on_error("Failed to write to file", "write_records_to_file")
                 ELSE /\ pc' = "w_close"
                      /\ UNCHANGED << exitCode, diag, exitedIn >>
    /\ UNCHANGED << argv, count, index, allocBytes, i, data, heapOverflow, now, wfd,
                    rfd, offset, read_bytes, stdout, rng, rec >>

\* write_records_to_file returning without close(fd)
Write_Close_missing ==
    /\ pc = "w_close"
    /\ pc' = "show"
    /\ UNCHANGED << argv, count, index, allocBytes, i, data, heapOverflow, now, file,
                    wfd, rfd, offset, written, read_bytes, stdout, diag, exitCode,
                    exitedIn, calls, rng, rec >>

\* write_records_to_file: close(fd) and return
Write_Close ==
    /\ pc = "w_close"
    /\ calls' = Append(calls, "close")
    /\ wfd' = "closed"
    /\ pc' = "show"
    /\ UNCHANGED << argv, count, index, allocBytes, i, data, heapOverflow, now, file,
                    rfd, offset, written, read_bytes, stdout, diag, exitCode,
                    exitedIn, rng, rec >>

\* main: the test that runs read_record_by_index
ShowRequested == argc = 5 /\ argv[3] = SHOW

\* main: --show <index>
Main_Show ==
    /\ pc = "show"
    /\ IF ShowRequested
       THEN /\ index' = Strtoul(argv[4])
            /\ pc' = "r_open"
       ELSE /\ pc' = "free"
            /\ UNCHANGED index
    /\ UNCHANGED << argv, count, allocBytes, i, data, heapOverflow, now, file, wfd,
                    rfd, offset, written, read_bytes, stdout, diag, exitCode,
                    exitedIn, calls,
                    rng, rec >>

\* read_record_by_index: open(path, O_RDONLY)
Read_Open ==
    /\ pc = "r_open"
    /\ calls' = Append(calls, "open")
    /\ \/ /\ exit_on_error("Failed to open file for reading", "read_record_by_index")
          /\ UNCHANGED rfd
       \/ /\ file.exists
          /\ rfd' = "open"
          /\ pc' = "r_seek"
          /\ UNCHANGED << exitCode, diag, exitedIn >>
    /\ UNCHANGED << argv, count, index, allocBytes, i, data, heapOverflow, now, file,
                    wfd, offset, written, read_bytes, stdout, rng, rec >>

\* read_record_by_index: off_t offset = index * sizeof(SensorRecord)
RecordOffset(x) == ToOffT(SizeT(x * RecordSize))

\* read_record_by_index: the offset computation and lseek(fd, offset, SEEK_SET),
\* which fails with EINVAL on a negative offset
Read_Seek ==
    /\ pc = "r_seek"
    /\ offset' = RecordOffset(index)
    /\ calls' = Append(calls, "lseek")
    /\ IF offset' < 0
       THEN exit_on_error("Failed to seek to record position", "read_record_by_index")
       ELSE /\ pc' = "r_read"
            /\ UNCHANGED << exitCode, diag, exitedIn >>
    /\ UNCHANGED << argv, count, index, allocBytes, i, data, heapOverflow, now, file,
                    wfd, rfd, written, read_bytes, stdout, rng, rec >>

\* the bytes read(fd, &rec, sizeof(SensorRecord)) finds at offset off
BytesAt(off) == Min(RecordSize, Max(0, file.len - off))

\* read_record_by_index: read(), the length test and the printf calls
Read_Read ==
    /\ pc = "r_read"
    /\ calls' = Append(calls, "read")
    /\ \E n \in { BytesAt(offset), -1 } :
          /\ read_bytes' = n
          /\ IF n # RecordSize
             THEN /\ Exit(EXIT_FAILURE, "Invalid index or incomplete record.",
                          "read_record_by_index")
                  /\ UNCHANGED stdout
             ELSE /\ stdout' = Append(stdout,
                         Deserialize(SubSeq(file.cells, offset \div CellSize + 1,
                                            offset \div CellSize + CellsPerRecord)))
                  /\ pc' = "r_close"
                  /\ UNCHANGED << exitCode, diag, exitedIn >>
    /\ UNCHANGED << argv, count, index, allocBytes, i, data, heapOverflow, now, file,
                    wfd, rfd, offset, written, rng, rec >>

\* read_record_by_index: close(fd) and return
Read_Close ==
    /\ pc = "r_close"
    /\ calls' = Append(calls, "close")
    /\ rfd' = "closed"
    /\ pc' = "free"
    /\ UNCHANGED << argv, count, index, allocBytes, i, data, heapOverflow, now, file,
                    wfd, offset, written, read_bytes, stdout, diag, exitCode,
                    exitedIn, rng, rec >>

\* main: free(data); return EXIT_SUCCESS
Main_Return ==
    /\ pc = "free"
    /\ Exit(EXIT_SUCCESS, diag, "main")
    /\ UNCHANGED << argv, count, index, allocBytes, i, data, heapOverflow, now, file,
                    wfd, rfd, offset, written, read_bytes, stdout, calls, rng, rec >>

Next ==
    \/ Main_Start
    \/ Main_Malloc
    \/ Main_Generate
    \/ Write_Open
    \/ Write_Write
    \/ Write_Close
    \/ Main_Show
    \/ Read_Open
    \/ Read_Seek
    \/ Read_Read
    \/ Read_Close
    \/ Main_Return

Spec == Init /\ [][Next]_vars

----------------------------------------------------------------------------
(* create_random_record on its own, over every value rand() can return *)

\* the next two values of rand(): one ranges over 0..RAND_MAX while the other
\* takes the extreme values
DrawPairs ==
    { << r, e >> : r \in 0..RAND_MAX, e \in { 0, RAND_MAX } }
    \cup { << e, r >> : r \in 0..RAND_MAX, e \in { 0, RAND_MAX } }

InitRand ==
    /\ rng \in DrawPairs
    /\ now \in 0..MaxTime
    /\ argv = << >>
    /\ file = NoFile
    /\ pc = "create"
    /\ count = 0
    /\ index = 0
    /\ allocBytes = -1
    /\ i = 0
    /\ data = << >>
    /\ heapOverflow = FALSE
    /\ wfd = "none"
    /\ rfd = "none"
    /\ offset = 0
    /\ written = 0
    /\ read_bytes = 0
    /\ stdout = << >>
    /\ diag = ""
    /\ exitCode = -1
    /\ exitedIn = ""
    /\ calls = << >>
    /\ rec = << >>

CreateRecord ==
    /\ pc = "create"
    /\ rec' = << create_random_record(IdBase, rng[1], Advance(rng, 1)[1], now) >>
    /\ rng' = Advance(rng, 2)
    /\ pc' = "created"
    /\ UNCHANGED << argv, count, index, allocBytes, i, data, heapOverflow, now, file,
                    wfd, rfd, offset, written, read_bytes, stdout, diag, exitCode,
                    exitedIn, calls >>

NextRand == CreateRecord

SpecRand == InitRand /\ [][NextRand]_vars

----------------------------------------------------------------------------
(* Properties *)

Called(c) == \E k \in 1..Len(calls) : calls[k] = c

\* the cells of record k of a file
RecordCells(cells, k) == SubSeq(cells, k * CellsPerRecord + 1, (k + 1) * CellsPerRecord)

\* write_records_to_file has returned to main
WriteReturned ==
    /\ wfd # "none"
    /\ pc \notin { "w_write", "w_close" }
    /\ exitedIn # "write_records_to_file"

\* write_records_to_file has terminated the process after it opened the file
WriteAborted == wfd # "none" /\ exitedIn = "write_records_to_file"

\* read_record_by_index has been entered: main has parsed the index
ReadEntered == pc = "r_open" \/ rfd # "none" \/ exitedIn = "read_record_by_index"

\* read_record_by_index has returned to main
ReadReturned ==
    /\ rfd # "none"
    /\ pc \notin { "r_seek", "r_read", "r_close" }
    /\ exitedIn # "read_record_by_index"

\* read_record_by_index has terminated the process after it opened the file
ReadAborted == rfd # "none" /\ exitedIn = "read_record_by_index"

\* C1: once read() has been issued for an index in 0..count-1 and has not
\* failed, the record at byte offset index * sizeof(SensorRecord) of the file
\* has been displayed, and its sensor_id is 1000 + index.
C1_ReadBackYieldsRecord ==
    (Called("read") /\ index < count /\ read_bytes # -1)
        => /\ Len(stdout) = 1
           /\ (index + 1) * RecordSize <= file.len
           /\ stdout[1] = Deserialize(RecordCells(file.cells, index))
           /\ stdout[1].sensor_id = << IdBase + index, 1 >>

\* C2: once write_records_to_file has returned, the file is exactly
\* count * sizeof(SensorRecord) bytes long.
C2_FileSizeExact ==
    WriteReturned => (file.exists /\ file.len = count * RecordSize)

\* C3: a write() that returns fewer bytes than were requested terminates the
\* process with a non-zero status: the file is not closed, no read is run and
\* EXIT_SUCCESS is not returned.
C3_ShortWriteFatal ==
    (Called("write") /\ written >= 0 /\ written < BufferBytes(count))
        => /\ pc = "exited"
           /\ exitCode # EXIT_SUCCESS
           /\ exitedIn = "write_records_to_file"
           /\ wfd = "open"

\* C4: on a file that holds count records, read_record_by_index with an
\* index >= count never displays a record and the process never leaves it other
\* than by a non-zero exit.
C4_OutOfRangeNeverShown ==
    (ReadEntered /\ file.len = count * RecordSize /\ index >= count)
        => /\ stdout = << >>
           /\ pc \in { "r_open", "r_seek", "r_read", "exited" }
           /\ (pc = "exited" => exitCode # EXIT_SUCCESS)

\* C5: when index * sizeof(SensorRecord) does not fit off_t, the process has
\* exited non-zero once the offset has been computed, and no read() is issued.
C5_OverflowingOffsetFatal ==
    (Called("lseek") /\ index * RecordSize > OFF_MAX)
        => /\ pc = "exited"
           /\ exitCode # EXIT_SUCCESS
           /\ ~Called("read")

\* an index argument made of decimal digits only
WellFormedIndex(s) == Len(s) > 0 /\ \A k \in 1..Len(s) : IsDigit(s[k])

\* the command line is one the usage message rules out
UsageError ==
    \/ ~ArgcAccepted
    \/ Strtoul(argv[1]) = 0
    \/ argc = 5 /\ argv[3] # SHOW
    \/ argc = 5 /\ ~WellFormedIndex(argv[4])

\* C6: on a command line with a usage error no system call is issued on the
\* file, the file is left as it was, and the process ends with a diagnostic and
\* a non-zero status.
C6_UsageErrorNoSideEffects ==
    UsageError
        => /\ calls = << >>
           /\ file \in { NoFile, OldFile }
           /\ (pc = "exited" => exitCode # EXIT_SUCCESS /\ diag # "")

\* main accepts the argument count and the count argument parses to zero
ZeroCount == ArgcAccepted /\ Strtoul(argv[1]) = 0

\* C7: when the count argument parses to zero, every step of the process ends
\* it in main with a non-zero status, with no buffer allocated, no record
\* generated, no system call issued and the file left as it was.
C7_ZeroCountRejected ==
    [][ZeroCount =>
          /\ pc' = "exited"
          /\ exitCode' # EXIT_SUCCESS
          /\ exitedIn' = "main"
          /\ allocBytes' = -1
          /\ data' = << >>
          /\ i' = 0
          /\ calls' = << >>
          /\ wfd' = "none"
          /\ file' = file]_vars

C7_Witness ==
    /\ ZeroCount
    /\ pc = "exited"
    /\ exitCode = EXIT_FAILURE
    /\ diag = "Count must be a positive number."
    /\ file = OldFile

\* C8 as stated: whenever one of the two operations has ended, by returning or
\* by terminating the process, the descriptor it opened has been closed.
C8_ClosedOnEveryExitPath ==
    /\ (WriteReturned \/ WriteAborted) => wfd = "closed"
    /\ (ReadReturned \/ ReadAborted) => rfd = "closed"

\* C8 as amended: an operation that returns to main has closed its descriptor;
\* an operation that terminates the process after opening it has not.
C8_ClosedOnReturn ==
    /\ WriteReturned => wfd = "closed"
    /\ ReadReturned => rfd = "closed"
    /\ WriteAborted => wfd = "open"
    /\ ReadAborted => rfd = "open"

C8_Witness ==
    /\ ReadAborted
    /\ diag = "Invalid index or incomplete record."
    /\ rfd = "open"
    /\ wfd = "closed"

MallocSucceeded == allocBytes # -1 /\ pc # "malloc" /\ diag # "Memory allocation failed"

\* C10: the buffer malloc returned holds count records, and no store of the
\* generation loop lands outside it.
C10_BufferHoldsAllRecords ==
    MallocSucceeded
        => /\ allocBytes >= count * RecordSize
           /\ ~heapOverflow

====
